---- MODULE Spec2Model ----
(***************************************************************************)
(* Model of scripts/update_patrons.py: one batch run fetches the campaign  *)
(* members page by page, classifies them, renders PatronsInit.lua, diffs   *)
(* it against the file on disk, writes it, notifies Discord and reports to *)
(* GITHUB_OUTPUT.                                                          *)
(*                                                                         *)
(* Text is modelled as a sequence of tokens.  A character of a member name *)
(* is one token ("a", "B", "DQ" for the double quote, "BS" for the         *)
(* backslash, "NUL", "LF", "CR", "TAB").  A line of the fixed template is  *)
(* one token holding the whole line, except that the leading "--" of a     *)
(* comment line and every double quote are tokens of their own, because    *)
(* startswith("--") and the regular expression look at them.               *)
(***************************************************************************)
EXTENDS Integers, Sequences, FiniteSets, TLC

VARIABLES
    pc,               \* position of the run in main()
    access_token,     \* PATREON_ACCESS_TOKEN as the run read it: "set", "unset", "unread"
    campaign_env,     \* PATREON_CAMPAIGN_ID as the run read it
    github_output,    \* GITHUB_OUTPUT as the run read it
    campaign_id,      \* main(): campaign_id
    url,              \* fetch_all_members: url
    previous_url,     \* fetch_all_members: previous_url
    page_count,       \* fetch_all_members: page_count
    members,          \* fetch_all_members: members
    warnings,         \* warnings fetch_all_members printed to stderr
    got,              \* the raw records of every page received, in order
    api_depth,        \* how many "next" links the API hands out per run
    links_left,       \* "next" links the API may still hand out in this run
    paying_patrons,   \* main(): paying_patrons
    free_followers,   \* main(): free_followers
    lua_content,      \* main(): lua_content
    new_patron_list,  \* main(): new_patron_list
    file,             \* LUA_OUTPUT_PATH: <<>> when absent, <<content>> when present
    output,           \* lines this run appended to the GITHUB_OUTPUT file
    trace,            \* externally visible effects of this run, in order
    posted,           \* the payloads this run POSTed to the webhook
    notify_result,    \* how the webhook POST of this run ended
    diagnostic,       \* the fatal error this run reported, "none" if none
    exit_code,        \* exit status of the run, -1 while it runs
    file0,            \* the file as it was when this run started
    prior_names,      \* the names rendered into the file as it was at run start
    last_members      \* <<members>> of the preceding successful run, else <<>>

envVars == <<access_token, campaign_env, github_output>>
fetchVars == <<url, previous_url, page_count, members, warnings, got, links_left>>
renderVars == <<paying_patrons, free_followers, lua_content, new_patron_list>>
effectVars == <<file, output, trace, posted, notify_result>>
historyVars == <<api_depth, file0, prior_names, last_members>>

vars == <<pc, campaign_id, diagnostic, exit_code,
          envVars, fetchVars, renderVars, effectVars, historyVars>>

----------------------------------------------------------------------------
(* Bounds of the model *)

MaxMembers == 2
MaxPagesServed == 1

(* Program constants *)

max_pages == 100

----------------------------------------------------------------------------
(* Values *)

NoUrl == "None"
NoneStatus == "None"
NoneName == <<"None">>
NullAmount == -1
Anonymous == <<"A", "n", "o", "n", "y", "m", "o", "u", "s">>
EmptyName == <<>>

\* Usable names: "a", "B", "b" and a name that is one double quote.
UsableNames == {<<"a">>, <<"B">>, <<"b">>, <<"DQ">>}

\* Code point of a character.
Ord(c) ==
    CASE c = "NUL" -> 0
      [] c = "TAB" -> 9
      [] c = "LF" -> 10
      [] c = "CR" -> 13
      [] c = "DQ" -> 34
      [] c = "B" -> 66
      [] c = "BS" -> 92
      [] c = "a" -> 97
      [] c = "b" -> 98
      [] OTHER -> 110

\* str.lower on one character.
LowerChar(c) == IF c = "B" THEN "b" ELSE c

\* str.lower
Lower(s) == [i \in 1..Len(s) |-> LowerChar(s[i])]

\* Python's <= on strings: lexicographic by code point.
RECURSIVE StrLeq(_, _)
StrLeq(s, t) ==
    IF s = <<>> THEN TRUE
    ELSE IF t = <<>> THEN FALSE
    ELSE IF Ord(Head(s)) < Ord(Head(t)) THEN TRUE
    ELSE IF Ord(Head(s)) > Ord(Head(t)) THEN FALSE
    ELSE StrLeq(Tail(s), Tail(t))

\* The key of list.sort(key=str.lower) mutated to no key at all.
SortKeyCaseSensitive(name) == name

\* The key categorize_members sorts by.
SortKey(name) == Lower(name)

\* Stable insertion of x into a list sorted by SortKey.
RECURSIVE InsertSorted(_, _)
InsertSorted(x, sorted) ==
    IF sorted = <<>> THEN <<x>>
    ELSE IF StrLeq(SortKey(Head(sorted)), SortKey(x))
         THEN <<Head(sorted)>> \o InsertSorted(x, Tail(sorted))
         ELSE <<x>> \o sorted

\* list.sort(key=str.lower): a stable sort.
RECURSIVE SortNames(_)
SortNames(names) ==
    IF names = <<>> THEN <<>>
    ELSE InsertSorted(names[Len(names)], SortNames(SubSeq(names, 1, Len(names) - 1)))

----------------------------------------------------------------------------
(* categorize_members *)

\* "not name or name == 'Anonymous'"
SkipName(name) == name = NoneName \/ name = EmptyName \/ name = Anonymous

\* is_paying mutated to ignore the amount.
IsPayingStatusOnly(member) == member.status = "active_patron"

IsPaying(member) ==
    member.status = "active_patron" /\ member.amount_cents > 0

\* The names appended to one of the two lists, in member order.
RECURSIVE Collect(_, _)
Collect(ms, paying) ==
    IF ms = <<>> THEN <<>>
    ELSE LET m == Head(ms)
             rest == Collect(Tail(ms), paying)
         IN IF SkipName(m.name) THEN rest
            ELSE IF IsPaying(m) = paying THEN <<m.name>> \o rest
            ELSE rest

categorize_members(ms) ==
    [paying |-> SortNames(Collect(ms, TRUE)),
     free |-> SortNames(Collect(ms, FALSE))]

----------------------------------------------------------------------------
(* generate_lua *)

\* str.replace of one character by a string.
RECURSIVE Replace(_, _, _)
Replace(s, c, r) ==
    IF s = <<>> THEN <<>>
    ELSE (IF Head(s) = c THEN r ELSE <<Head(s)>>) \o Replace(Tail(s), c, r)

lua_escape(s) ==
    Replace(Replace(Replace(Replace(Replace(Replace(s,
        "BS", <<"BS", "BS">>),
        "DQ", <<"BS", "DQ">>),
        "LF", <<"BS", "n">>),
        "CR", <<"BS", "r">>),
        "TAB", <<"BS", "t">>),
        "NUL", <<>>)

\* str.join
RECURSIVE Join(_, _)
Join(parts, sep) ==
    IF parts = <<>> THEN <<>>
    ELSE IF Len(parts) = 1 THEN parts[1]
    ELSE parts[1] \o sep \o Join(Tail(parts), sep)

EntryOpen == "        { name = "
EntryTier == ", tier = "
EntryClose == " },"

\* f'        {{ name = "{escaped}", tier = "{tier}" }},'
EntryLine(name, tier) ==
    <<EntryOpen, "DQ">> \o lua_escape(name) \o <<"DQ", EntryTier, "DQ", tier, "DQ", EntryClose>>

format_patron_list(names, tier) ==
    Join([i \in 1..Len(names) |-> EntryLine(names[i], tier)], <<"LF">>)

NoPatronsYet == "        -- No patrons yet"

LastUpdated == " Last updated: See git commit timestamp"

TemplateHead ==
    << "--", " AUTO-GENERATED FILE - DO NOT EDIT MANUALLY", "LF",
       "--", " This file is automatically updated by GitHub Actions from Patreon data", "LF",
       "--", LastUpdated, "LF",
       "LF",
       "local PeaversCommons = _G.PeaversCommons", "LF",
       "local Patrons = PeaversCommons.Patrons", "LF",
       "LF",
       "local function InitializePatrons()", "LF",
       "    if not Patrons or not Patrons.AddPatrons then", "LF",
       "        return false", "LF",
       "    end", "LF",
       "LF",
       "    -- Clear existing patrons to prevent duplicates on reload", "LF",
       "    if Patrons.Clear then", "LF",
       "        Patrons:Clear()", "LF",
       "    end", "LF",
       "LF",
       "    Patrons:AddPatrons({", "LF" >>

TemplateTail ==
    << "LF",
       "    })", "LF",
       "LF",
       "    return true", "LF",
       "end", "LF",
       "LF",
       "InitializePatrons()", "LF",
       "LF",
       "return InitializePatrons", "LF" >>

generate_lua(paying, free) ==
    LET paying_lua == format_patron_list(paying, "gold")
        followers_lua == format_patron_list(free, "silver")
        all_entries == (IF paying_lua # <<>> THEN <<paying_lua>> ELSE <<>>)
                       \o (IF followers_lua # <<>> THEN <<followers_lua>> ELSE <<>>)
        combined == IF all_entries # <<>> THEN Join(all_entries, <<"LF">>)
                    ELSE <<NoPatronsYet>>
    IN TemplateHead \o combined \o TemplateTail

----------------------------------------------------------------------------
(* reading a document back *)

\* str.split("\n")
RECURSIVE SplitFrom(_, _, _)
SplitFrom(s, i, cur) ==
    IF i > Len(s) THEN <<cur>>
    ELSE IF s[i] = "LF" THEN <<cur>> \o SplitFrom(s, i + 1, <<>>)
    ELSE SplitFrom(s, i + 1, Append(cur, s[i]))

SplitLines(s) == SplitFrom(s, 1, <<>>)

\* l.startswith("--")
IsComment(line) == line # <<>> /\ line[1] = "--"

\* [l for l in content.split("\n") if not l.startswith("--")]
NonCommentLines(content) == SelectSeq(SplitLines(content), LAMBDA l : ~IsComment(l))

\* The tokens from position i up to the next double quote (or the end).
RECURSIVE UpToQuote(_, _)
UpToQuote(s, i) ==
    IF i > Len(s) THEN <<>>
    ELSE IF s[i] = "DQ" THEN <<>>
    ELSE <<s[i]>> \o UpToQuote(s, i + 1)

\* Whether the text from position i on holds a double quote.
HasQuoteFrom(s, i) == \E j \in i..Len(s) : s[j] = "DQ"

\* re.finditer(r'\{\s*name\s*=\s*"([^"]+)"', content): the group of each match.
\* A match starts at an EntryOpen token followed by a double quote, takes one
\* or more tokens that are not double quotes, and needs a closing double quote.
parse_existing_patrons(content) ==
    { UpToQuote(content, i + 2) :
        i \in { k \in 1..(Len(content) - 1) :
                  /\ content[k] = EntryOpen
                  /\ content[k + 1] = "DQ"
                  /\ HasQuoteFrom(content, k + 2)
                  /\ UpToQuote(content, k + 2) # <<>> } }

----------------------------------------------------------------------------
(* The Patreon API *)

ApiUrls == {"u1", "u2"}

\* The members URL fetch_all_members builds from the campaign id.
FirstUrl == "u1"

\* Records of a members page, as the API sends them.  A record is the
\* "attributes" object; a key the API leaves out is not in its domain.
ApiRecords ==
    { [full_name |-> <<"a">>, patron_status |-> "active_patron",
       currently_entitled_amount_cents |-> 500],
      [full_name |-> <<"a">>, patron_status |-> NoneStatus,
       currently_entitled_amount_cents |-> NullAmount],
      [full_name |-> <<"DQ">>, patron_status |-> "declined_patron"],
      [patron_status |-> "active_patron",
       currently_entitled_amount_cents |-> 500] }

\* The pages the API may answer with while the run holds the given members.
ApiPages(ms) ==
    {<<>>} \cup (IF Len(ms) < MaxMembers THEN {<<r>> : r \in ApiRecords} ELSE {})

\* The "next" links the API may answer with.
ApiNext == IF links_left > 0 THEN ApiUrls \cup {NoUrl} ELSE {NoUrl}

\* The member fetch_all_members builds from one record.
MemberOf(attrs) ==
    [name |-> IF "full_name" \in DOMAIN attrs THEN attrs.full_name ELSE Anonymous,
     status |-> IF "patron_status" \in DOMAIN attrs THEN attrs.patron_status ELSE NoneStatus,
     amount_cents |->
        LET v == IF "currently_entitled_amount_cents" \in DOMAIN attrs
                 THEN attrs.currently_entitled_amount_cents ELSE 0
        IN IF v = NullAmount \/ v = 0 THEN 0 ELSE v]

----------------------------------------------------------------------------
(* main *)

Exit(code) ==
    /\ pc' = "exited"
    /\ exit_code' = code

\* A new run of the script starts, with the environment it is given.
StartRun ==
    /\ pc \in {"idle", "exited"}
    /\ access_token' = "unread"
    /\ campaign_env' = "unread"
    /\ github_output' = "unread"
    /\ pc' = "main"
    /\ exit_code' = -1
    /\ campaign_id' = "None"
    /\ diagnostic' = "none"
    /\ url' = NoUrl
    /\ previous_url' = NoUrl
    /\ page_count' = 0
    /\ members' = <<>>
    /\ warnings' = {}
    /\ got' = <<>>
    /\ links_left' = api_depth
    /\ paying_patrons' = <<>>
    /\ free_followers' = <<>>
    /\ lua_content' = <<>>
    /\ new_patron_list' = <<>>
    /\ output' = <<>>
    /\ trace' = <<>>
    /\ posted' = <<>>
    /\ notify_result' = "none"
    /\ file0' = file
    /\ prior_names' = IF \E i \in 1..Len(trace) : trace[i] = "write"
                      THEN {paying_patrons[i] : i \in 1..Len(paying_patrons)}
                           \cup {free_followers[i] : i \in 1..Len(free_followers)}
                      ELSE prior_names
    /\ last_members' = IF exit_code = 0 THEN <<members>> ELSE last_members
    /\ UNCHANGED <<file, api_depth>>

\* The state in which fetch_all_members enters its loop.
EnterFetch ==
    /\ url' = FirstUrl
    /\ previous_url' = NoUrl
    /\ page_count' = 0
    /\ members' = <<>>
    /\ UNCHANGED <<warnings, got, links_left>>

\* main, lines 283-294, token missing.
NoToken ==
    /\ pc = "main"
    /\ access_token' = "unset"
    /\ diagnostic' = "token"
    /\ Exit(1)
    /\ UNCHANGED <<campaign_id, campaign_env, github_output, fetchVars,
                   renderVars, effectVars, historyVars>>

\* main, lines 283-294, campaign id given.
CampaignFromEnv ==
    /\ pc = "main"
    /\ access_token' = "set"
    /\ campaign_env' = "set"
    /\ campaign_id' = "c1"
    /\ pc' = "fetch"
    /\ EnterFetch
    /\ UNCHANGED <<diagnostic, exit_code, github_output, renderVars,
                   effectVars, historyVars>>

\* main, lines 283-294, campaign id to be looked up.
CampaignLookup ==
    /\ pc = "main"
    /\ access_token' = "set"
    /\ campaign_env' = "unset"
    /\ pc' = "get_campaign_id"
    /\ UNCHANGED <<campaign_id, diagnostic, exit_code, github_output,
                   fetchVars, renderVars, effectVars, historyVars>>

\* get_campaign_id: the request fails.
GetCampaignIdFail ==
    /\ pc = "get_campaign_id"
    /\ diagnostic' = "request"
    /\ Exit(1)
    /\ UNCHANGED <<campaign_id, envVars, fetchVars, renderVars, effectVars,
                   historyVars>>

\* get_campaign_id: the account has no campaign.
GetCampaignIdNone ==
    /\ pc = "get_campaign_id"
    /\ diagnostic' = "no_campaign"
    /\ Exit(1)
    /\ UNCHANGED <<campaign_id, envVars, fetchVars, renderVars, effectVars,
                   historyVars>>

\* get_campaign_id: the first campaign's id is returned.
GetCampaignIdOk ==
    /\ pc = "get_campaign_id"
    /\ campaign_id' = "c1"
    /\ pc' = "fetch"
    /\ EnterFetch
    /\ UNCHANGED <<diagnostic, exit_code, envVars, renderVars, effectVars,
                   historyVars>>

----------------------------------------------------------------------------
(* fetch_all_members *)

\* The loop condition mutated to have no page limit.
LoopConditionNoLimit == url # NoUrl

\* "while url and page_count < max_pages"
LoopCondition == url # NoUrl /\ page_count < max_pages

\* "if url == previous_url: ... break"
SameUrl == url = previous_url

\* One iteration of the loop in which fetch_json exits the process, mutated to
\* end the pagination instead and carry on with the members fetched so far.
FetchPageFailCarryOn ==
    /\ pc = "fetch"
    /\ LoopCondition
    /\ ~SameUrl
    /\ page_count' = page_count + 1
    /\ diagnostic' = "request"
    /\ pc' = "categorize"
    /\ UNCHANGED <<campaign_id, exit_code, envVars, url, previous_url, members,
                   warnings, got, links_left, renderVars, effectVars, historyVars>>

\* One iteration of the loop in which fetch_json exits the process.
FetchPageFail ==
    /\ pc = "fetch"
    /\ LoopCondition
    /\ ~SameUrl
    /\ page_count' = page_count + 1
    /\ diagnostic' = "request"
    /\ Exit(1)
    /\ UNCHANGED <<campaign_id, envVars, url, previous_url, members, warnings,
                   got, links_left, renderVars, effectVars, historyVars>>

\* One iteration of the loop in which fetch_json returns a page.
FetchPageOk(page, next) ==
    /\ pc = "fetch"
    /\ LoopCondition
    /\ ~SameUrl
    /\ page_count' = page_count + 1
    /\ got' = got \o page
    /\ members' = members \o [i \in 1..Len(page) |-> MemberOf(page[i])]
    /\ previous_url' = url
    /\ url' = next
    /\ links_left' = IF next = NoUrl THEN links_left ELSE links_left - 1
    /\ UNCHANGED <<pc, campaign_id, diagnostic, exit_code, envVars, warnings,
                   renderVars, effectVars, historyVars>>

\* The loop ends (its condition fails or it breaks) and the function returns.
FetchReturn ==
    /\ pc = "fetch"
    /\ ~LoopCondition \/ SameUrl
    /\ warnings' = (IF LoopCondition /\ SameUrl THEN {"same_url"} ELSE {})
                   \cup (IF page_count >= max_pages THEN {"max_pages"} ELSE {})
    /\ pc' = "categorize"
    /\ UNCHANGED <<campaign_id, diagnostic, exit_code, envVars, url,
                   previous_url, page_count, members, got, links_left,
                   renderVars, effectVars, historyVars>>

----------------------------------------------------------------------------
(* main, after the fetch *)

\* main, line 301.
Categorize ==
    /\ pc = "categorize"
    /\ LET r == categorize_members(members)
       IN /\ paying_patrons' = r.paying
          /\ free_followers' = r.free
    /\ pc' = "render"
    /\ UNCHANGED <<campaign_id, diagnostic, exit_code, envVars,
                   fetchVars, lua_content, new_patron_list, effectVars,
                   historyVars>>

\* main, line 306.
GenerateLua ==
    /\ pc = "render"
    /\ lua_content' = generate_lua(paying_patrons, free_followers)
    /\ pc' = "diff"
    /\ UNCHANGED <<campaign_id, diagnostic, exit_code, envVars,
                   fetchVars, paying_patrons, free_followers, new_patron_list,
                   effectVars, historyVars>>

\* [(name, tier) for name in names if name not in existing]
NewOf(names, tier, existing) ==
    LET fresh == SelectSeq(names, LAMBDA n : n \notin existing)
    IN [i \in 1..Len(fresh) |-> <<fresh[i], tier>>]

\* main, lines 312-339, mutated to collect the new patrons without a file too.
DetectChangesAlwaysNew ==
    /\ pc = "diff"
    /\ IF file # <<>>
       THEN LET existing_content == file[1]
                existing_patrons == parse_existing_patrons(existing_content)
            IN /\ new_patron_list' = NewOf(paying_patrons, "gold", existing_patrons)
                                     \o NewOf(free_followers, "silver", existing_patrons)
               /\ pc' = IF NonCommentLines(existing_content) = NonCommentLines(lua_content)
                        THEN "unchanged" ELSE "write"
       ELSE /\ new_patron_list' = NewOf(paying_patrons, "gold", {})
                                  \o NewOf(free_followers, "silver", {})
            /\ pc' = "write"
    /\ UNCHANGED <<campaign_id, diagnostic, exit_code, envVars,
                   fetchVars, paying_patrons, free_followers, lua_content,
                   effectVars, historyVars>>

\* main, lines 312-339, mutated to compare the whole texts.
DetectChangesWholeText ==
    /\ pc = "diff"
    /\ IF file # <<>>
       THEN LET existing_content == file[1]
                existing_patrons == parse_existing_patrons(existing_content)
            IN /\ new_patron_list' = NewOf(paying_patrons, "gold", existing_patrons)
                                     \o NewOf(free_followers, "silver", existing_patrons)
               /\ pc' = IF SplitLines(existing_content) = SplitLines(lua_content)
                        THEN "unchanged" ELSE "write"
       ELSE /\ new_patron_list' = <<>>
            /\ pc' = "write"
    /\ UNCHANGED <<campaign_id, diagnostic, exit_code, envVars,
                   fetchVars, paying_patrons, free_followers, lua_content,
                   effectVars, historyVars>>

\* main, lines 312-339, mutated to skip the comparison.
DetectChangesAlwaysWrite ==
    /\ pc = "diff"
    /\ IF file # <<>>
       THEN LET existing_content == file[1]
                existing_patrons == parse_existing_patrons(existing_content)
            IN /\ new_patron_list' = NewOf(paying_patrons, "gold", existing_patrons)
                                     \o NewOf(free_followers, "silver", existing_patrons)
               /\ pc' = "write"
       ELSE /\ new_patron_list' = <<>>
            /\ pc' = "write"
    /\ UNCHANGED <<campaign_id, diagnostic, exit_code, envVars,
                   fetchVars, paying_patrons, free_followers, lua_content,
                   effectVars, historyVars>>

\* main, lines 312-339: the new patrons, and whether the document changed.
DetectChanges ==
    /\ pc = "diff"
    /\ IF file # <<>>
       THEN LET existing_content == file[1]
                existing_patrons == parse_existing_patrons(existing_content)
            IN /\ new_patron_list' = NewOf(paying_patrons, "gold", existing_patrons)
                                     \o NewOf(free_followers, "silver", existing_patrons)
               /\ pc' = IF NonCommentLines(existing_content) = NonCommentLines(lua_content)
                        THEN "unchanged" ELSE "write"
       ELSE /\ new_patron_list' = <<>>
            /\ pc' = "write"
    /\ UNCHANGED <<campaign_id, diagnostic, exit_code, envVars,
                   fetchVars, paying_patrons, free_followers, lua_content,
                   effectVars, historyVars>>

\* main, lines 330-336.
ReportUnchanged(gh) ==
    /\ pc = "unchanged"
    /\ output' = IF gh = "set" THEN output \o << <<"changed", "false">> >> ELSE output
    /\ trace' = IF gh = "set" THEN Append(trace, "out_unchanged") ELSE trace
    /\ github_output' = gh
    /\ Exit(0)
    /\ UNCHANGED <<campaign_id, diagnostic, access_token, campaign_env,
                   fetchVars, renderVars, file, posted, notify_result,
                   historyVars>>

\* main, lines 342-349.
WriteFile ==
    /\ pc = "write"
    /\ file' = <<lua_content>>
    /\ trace' = Append(trace, "write")
    /\ pc' = IF new_patron_list # <<>> THEN "notify" ELSE "report"
    /\ UNCHANGED <<campaign_id, diagnostic, exit_code, envVars,
                   fetchVars, renderVars, output, posted, notify_result,
                   historyVars>>

\* How urlopen on the webhook may end: status 200/204, another status that
\* does not raise, or an exception (HTTP error status, network error, timeout).
PostResults == {"ok", "other_status", "exception"}

\* main, lines 349-356, mutated to post one message per tier.
NotifyPerTier(result) ==
    /\ pc = "notify"
    /\ posted' = posted
                 \o (LET g == SelectSeq(new_patron_list, LAMBDA e : e[2] = "gold")
                     IN IF g # <<>> THEN <<g>> ELSE <<>>)
                 \o (LET s == SelectSeq(new_patron_list, LAMBDA e : e[2] = "silver")
                     IN IF s # <<>> THEN <<s>> ELSE <<>>)
    /\ trace' = trace \o [i \in 1..Len(posted') |-> "post"]
    /\ notify_result' = result
    /\ pc' = "report"
    /\ UNCHANGED <<campaign_id, diagnostic, exit_code, envVars,
                   fetchVars, renderVars, file, output, historyVars>>

\* main, lines 349-356, with send_discord_notification mutated to let the
\* exception out.
NotifyRaises(result) ==
    /\ pc = "notify"
    /\ posted' = Append(posted, new_patron_list)
    /\ trace' = Append(trace, "post")
    /\ notify_result' = result
    /\ IF result = "exception"
       THEN Exit(1)
       ELSE pc' = "report" /\ UNCHANGED exit_code
    /\ UNCHANGED <<campaign_id, diagnostic, envVars, fetchVars,
                   renderVars, file, output, historyVars>>

\* main, lines 349-356, with send_discord_notification: one POST, whose
\* outcome is only logged.
Notify(result) ==
    /\ pc = "notify"
    /\ posted' = Append(posted, new_patron_list)
    /\ trace' = Append(trace, "post")
    /\ notify_result' = result
    /\ pc' = "report"
    /\ UNCHANGED <<campaign_id, diagnostic, exit_code, envVars,
                   fetchVars, renderVars, file, output, historyVars>>

\* main, lines 358-375.
ReportChanged(gh) ==
    /\ pc = "report"
    /\ output' = IF gh = "set"
                 THEN output \o << <<"changed", "true">>,
                                   <<"paying_count", Len(paying_patrons)>>,
                                   <<"follower_count", Len(free_followers)>> >>
                 ELSE output
    /\ trace' = IF gh = "set" THEN Append(trace, "out_changed") ELSE trace
    /\ github_output' = gh
    /\ Exit(0)
    /\ UNCHANGED <<campaign_id, diagnostic, access_token, campaign_env,
                   fetchVars, renderVars, file, posted, notify_result,
                   historyVars>>

----------------------------------------------------------------------------
(* Specifications *)

InitRun ==
    /\ pc = "idle"
    /\ access_token = "unread"
    /\ campaign_env = "unread"
    /\ github_output = "unread"
    /\ campaign_id = "None"
    /\ url = NoUrl
    /\ previous_url = NoUrl
    /\ page_count = 0
    /\ members = <<>>
    /\ warnings = {}
    /\ got = <<>>
    /\ paying_patrons = <<>>
    /\ free_followers = <<>>
    /\ lua_content = <<>>
    /\ new_patron_list = <<>>
    /\ output = <<>>
    /\ trace = <<>>
    /\ posted = <<>>
    /\ notify_result = "none"
    /\ diagnostic = "none"
    /\ exit_code = -1
    /\ last_members = <<>>

\* A PatronsInit.lua left by an earlier version of the script, whose comment
\* lines carry a timestamp ("which might have timestamps", line 325).
LegacyDocument(paying, free) ==
    LET doc == generate_lua(paying, free)
    IN [i \in 1..Len(doc) |->
          IF doc[i] = LastUpdated THEN " Last updated: 2024-01-01" ELSE doc[i]]

\* The member lists such a document was rendered from.
LegacyMembers == {<<>>} \cup {<<MemberOf(r)>> : r \in ApiRecords}

\* The script is run again and again on a repository that starts without
\* PatronsInit.lua or with one an earlier version left.
Init ==
    /\ InitRun
    /\ api_depth = MaxPagesServed
    /\ links_left = MaxPagesServed
    /\ \/ file = <<>> /\ prior_names = {}
       \/ \E ms \in LegacyMembers :
             LET r == categorize_members(ms)
             IN /\ file = <<LegacyDocument(r.paying, r.free)>>
                /\ prior_names = {r.paying[i] : i \in 1..Len(r.paying)}
                                 \cup {r.free[i] : i \in 1..Len(r.free)}
    /\ file0 = file

Next ==
    \/ StartRun
    \/ NoToken
    \/ CampaignFromEnv
    \/ CampaignLookup
    \/ GetCampaignIdFail
    \/ GetCampaignIdNone
    \/ GetCampaignIdOk
    \/ FetchPageFail
    \/ \E page \in ApiPages(members), next \in ApiNext : FetchPageOk(page, next)
    \/ FetchReturn
    \/ Categorize
    \/ GenerateLua
    \/ DetectChanges
    \/ \E gh \in {"set", "unset"} : ReportUnchanged(gh)
    \/ WriteFile
    \/ \E result \in PostResults : Notify(result)
    \/ \E gh \in {"set", "unset"} : ReportChanged(gh)

Spec == Init /\ [][Next]_vars

\* fetch_all_members alone, against an API that keeps handing out "next"
\* links beyond the page limit.  The process keeps running until it returns
\* or exits, hence the fairness.
InitFetch ==
    /\ InitRun
    /\ file = <<>>
    /\ file0 = <<>>
    /\ prior_names = {}
    /\ api_depth = max_pages + 1
    /\ links_left = max_pages + 1

EnterFetchAlone ==
    /\ pc = "idle"
    /\ pc' = "fetch"
    /\ access_token' = "set"
    /\ campaign_env' = "set"
    /\ campaign_id' = "c1"
    /\ EnterFetch
    /\ UNCHANGED <<diagnostic, exit_code, github_output, renderVars,
                   effectVars, historyVars>>

NextFetch ==
    \/ EnterFetchAlone
    \/ FetchPageFail
    \/ \E page \in ApiPages(members), next \in ApiNext : FetchPageOk(page, next)
    \/ FetchReturn

SpecFetch == InitFetch /\ [][NextFetch]_vars /\ WF_vars(NextFetch)

\* The members categorize_members may be handed.
MemberNames == UsableNames \cup {NoneName, EmptyName, Anonymous}
MemberStatuses == {NoneStatus, "active_patron", "declined_patron"}
MemberAmounts == {0, 500}
MemberRecords == [name : MemberNames, status : MemberStatuses, amount_cents : MemberAmounts]

\* categorize_members and generate_lua alone, on every member list.
InitRender ==
    /\ InitRun
    /\ file = <<>>
    /\ file0 = <<>>
    /\ prior_names = {}
    /\ api_depth = 0
    /\ links_left = 0

\* The member list grows by one member.
GivenMember(m) ==
    /\ pc = "idle"
    /\ Len(members) < MaxMembers
    /\ members' = Append(members, m)
    /\ UNCHANGED <<pc, campaign_id, diagnostic, exit_code, envVars, url,
                   previous_url, page_count, warnings, got, links_left,
                   renderVars, effectVars, historyVars>>

\* The member list is handed to categorize_members.
EnterRender ==
    /\ pc = "idle"
    /\ pc' = "categorize"
    /\ UNCHANGED <<campaign_id, diagnostic, exit_code, envVars, fetchVars,
                   renderVars, effectVars, historyVars>>

NextRender ==
    \/ \E m \in MemberRecords : GivenMember(m)
    \/ EnterRender
    \/ Categorize
    \/ GenerateLua

SpecRender == InitRender /\ [][NextRender]_vars

----------------------------------------------------------------------------
(* Properties *)

Count(seq, x) == Cardinality({i \in 1..Len(seq) : seq[i] = x})
Elems(seq) == {seq[i] : i \in 1..Len(seq)}
OutputLines == {"out_changed", "out_unchanged"}
Wrote == "write" \in Elems(trace)
ChangedLines ==
    << <<"changed", "true">>,
       <<"paying_count", Len(paying_patrons)>>,
       <<"follower_count", Len(free_followers)>> >>
UnchangedLines == << <<"changed", "false">> >>
Succeeded == pc = "exited" /\ exit_code = 0

\* C1: categorize_members puts a member's name in the gold list iff the
\* member has a usable name, status "active_patron" and amount_cents > 0, in
\* the silver list iff it has a usable name and is not gold, and in neither
\* list when its name is empty, missing or "Anonymous"; so every member is in
\* at most one list and the lists hold nothing else.
C1_Categorize ==
    pc \in {"render", "diff"} =>
        \A n \in {members[i].name : i \in 1..Len(members)}
                 \cup Elems(paying_patrons) \cup Elems(free_followers) :
            LET usable == n # NoneName /\ n # <<>> /\ n # Anonymous
                gold == {i \in 1..Len(members) :
                            /\ members[i].name = n
                            /\ members[i].status = "active_patron"
                            /\ members[i].amount_cents > 0}
                other == {i \in 1..Len(members) :
                            /\ members[i].name = n
                            /\ ~(/\ members[i].status = "active_patron"
                                 /\ members[i].amount_cents > 0)}
            IN /\ Count(paying_patrons, n) = IF usable THEN Cardinality(gold) ELSE 0
               /\ Count(free_followers, n) = IF usable THEN Cardinality(other) ELSE 0

\* C1 witness: one paying member classified gold next to a paying member
\* with an empty name, which is dropped.
C1_Witness ==
    /\ pc = "diff"
    /\ \E i \in 1..Len(members) : members[i].name = EmptyName /\ members[i].status = "active_patron"
                                  /\ members[i].amount_cents = 500
    /\ paying_patrons = << <<"a">> >>
    /\ free_followers = <<>>

\* The entry lines of a document, in order.
EntryLinesOf(content) ==
    SelectSeq(SplitLines(content), LAMBDA l : l # <<>> /\ l[1] = EntryOpen)

\* The tier an entry line names.
TierOf(line) == line[Len(line) - 2]

\* C8: in the rendered document every gold entry precedes every silver
\* entry, each tier's names are in non-decreasing case-insensitive order, the
\* entries are exactly one per classified name, and the placeholder comment
\* line is there iff both tiers are empty.
C8_RenderedOrder ==
    pc = "diff" =>
        LET entries == EntryLinesOf(lua_content)
            np == Len(paying_patrons)
            nf == Len(free_followers)
        IN /\ \A i, j \in 1..Len(entries) :
                  i < j => ~(TierOf(entries[i]) = "silver" /\ TierOf(entries[j]) = "gold")
           /\ Len(entries) = np + nf
           /\ \A i \in 1..np : entries[i] = EntryLine(paying_patrons[i], "gold")
           /\ \A i \in 1..nf : entries[np + i] = EntryLine(free_followers[i], "silver")
           /\ \A i \in 1..(np - 1) :
                  StrLeq(Lower(paying_patrons[i]), Lower(paying_patrons[i + 1]))
           /\ \A i \in 1..(nf - 1) :
                  StrLeq(Lower(free_followers[i]), Lower(free_followers[i + 1]))
           /\ (<<NoPatronsYet>> \in Elems(SplitLines(lua_content))) <=> (np + nf = 0)

\* C8 witness: a document whose gold tier holds "a" before "B", members given
\* in the other order.
C8_Witness ==
    /\ pc = "diff"
    /\ Len(members) = 2
    /\ members[1].name = <<"B">>
    /\ paying_patrons = << <<"a">>, <<"B">> >>

\* C7: fetch_all_members issues at most max_pages requests, one per loop
\* iteration and never for an absent link or for the URL it has just
\* requested; it returns with a warning when the last "next" link repeats the
\* URL just requested; its members are those of the pages received, in order;
\* and it always leaves the loop.
C7_Invariant ==
    /\ page_count <= max_pages
    /\ members = [i \in 1..Len(got) |-> MemberOf(got[i])]
    /\ (pc = "categorize" /\ url # NoUrl /\ url = previous_url) => warnings # {}
    /\ (pc = "categorize" /\ url # NoUrl) => (url = previous_url \/ page_count = max_pages)

C7_Request ==
    page_count' # page_count =>
        /\ page_count' = page_count + 1
        /\ url # NoUrl
        /\ url # previous_url

C7_Fetch ==
    /\ []C7_Invariant
    /\ [][C7_Request]_vars
    /\ <>(pc \in {"categorize", "exited"})

\* C7 witness: the page limit ends a pagination that cycles between two URLs.
C7_Witness ==
    /\ pc = "categorize"
    /\ page_count = max_pages
    /\ url # NoUrl
    /\ url # previous_url
    /\ Len(members) = MaxMembers
    /\ warnings = {"max_pages"}

\* C2: once a run has reported a fatal error (no token, no campaign, a failed
\* request) it has exited with status 1 and published nothing: the file is
\* as the run found it, nothing was appended to GITHUB_OUTPUT, nothing was
\* POSTed; the run being over, no request follows the failed one.
C2_FatalPublishesNothing ==
    diagnostic # "none" =>
        /\ pc = "exited"
        /\ exit_code = 1
        /\ file = file0
        /\ output = <<>>
        /\ posted = <<>>
        /\ trace = <<>>

\* C2 witness: the second page request fails after a first page with a member,
\* a document being on disk.
C2_Witness ==
    /\ diagnostic = "request"
    /\ page_count = 2
    /\ members # <<>>
    /\ file0 # <<>>
    /\ pc = "exited"

\* C3: when the file exists and its non-comment lines equal those of the
\* rendered document, the run does not write, POSTs nothing, appends exactly
\* "changed=false" to GITHUB_OUTPUT (when that is set; there is nothing to
\* append to otherwise) and exits 0.
C3_Unchanged ==
    (/\ pc \notin {"idle", "main", "get_campaign_id", "fetch", "categorize", "render", "diff"}
     /\ diagnostic = "none"
     /\ file0 # <<>>
     /\ NonCommentLines(file0[1]) = NonCommentLines(lua_content))
    => /\ pc \in {"unchanged", "exited"}
       /\ file = file0
       /\ posted = <<>>
       /\ ~Wrote
       /\ pc = "exited" =>
            /\ exit_code = 0
            /\ output = IF github_output = "set" THEN UnchangedLines ELSE <<>>

\* C3 witness: an unchanged run with members that reported to GITHUB_OUTPUT,
\* the file differing from the rendered document in a comment line.
C3_Witness ==
    /\ Succeeded
    /\ file0 # <<>>
    /\ file0 # <<lua_content>>
    /\ members # <<>>
    /\ paying_patrons # <<>>
    /\ output = UnchangedLines

\* C5: a run that finds no file POSTs nothing, writes the rendered document,
\* appends "changed=true" and both counts to GITHUB_OUTPUT (when set) and
\* exits 0.
C5_FirstRun ==
    file0 = <<>> =>
        /\ posted = <<>>
        /\ new_patron_list = <<>>
        /\ (pc = "exited" /\ diagnostic = "none") =>
            /\ exit_code = 0
            /\ file = <<lua_content>>
            /\ output = IF github_output = "set" THEN ChangedLines ELSE <<>>

\* C5 witness: a first run that classified two members.
C5_Witness ==
    /\ Succeeded
    /\ file0 = <<>>
    /\ Len(paying_patrons) + Len(free_followers) = 2
    /\ output = ChangedLines

\* C6: when the webhook POST fails, the run still ends with the rendered
\* document on disk, "changed=true" and both counts appended to GITHUB_OUTPUT
\* (when set) and exit status 0.
C6_NotifyFailure ==
    notify_result \in {"other_status", "exception"} =>
        /\ pc \in {"report", "exited"}
        /\ file = <<lua_content>>
        /\ diagnostic = "none"
        /\ pc = "exited" =>
            /\ exit_code = 0
            /\ output = IF github_output = "set" THEN ChangedLines ELSE <<>>

\* C6 witness: a run whose POST raised and that reported to GITHUB_OUTPUT.
C6_Witness ==
    /\ notify_result = "exception"
    /\ Succeeded
    /\ output = ChangedLines

\* C9 as stated: after every successful run the file is the document the run
\* rendered; and a successful run that fetched the members of the preceding
\* successful run wrote nothing, POSTed nothing and appended exactly
\* "changed=false" to GITHUB_OUTPUT (when set).
C9_Idempotent ==
    Succeeded =>
        /\ file = <<lua_content>>
        /\ last_members = <<members>> =>
            /\ file = file0
            /\ ~Wrote
            /\ posted = <<>>
            /\ output = IF github_output = "set" THEN UnchangedLines ELSE <<>>

\* C9 amended: after every successful run the file agrees with the document
\* the run rendered in every line that is not a "--" comment line, and is that
\* document when the run wrote it; and a successful run that fetched the
\* members of the preceding successful run rendered what is on disk (comment
\* lines apart), wrote nothing, POSTed nothing and appended exactly
\* "changed=false" to GITHUB_OUTPUT (when set).
C9_IdempotentModuloComments ==
    Succeeded =>
        /\ file # <<>>
        /\ NonCommentLines(file[1]) = NonCommentLines(lua_content)
        /\ Wrote => file = <<lua_content>>
        /\ last_members = <<members>> =>
            /\ NonCommentLines(file0[1]) = NonCommentLines(lua_content)
            /\ file = file0
            /\ ~Wrote
            /\ posted = <<>>
            /\ output = IF github_output = "set" THEN UnchangedLines ELSE <<>>

\* C9 witness: a successful run repeating the two members of the preceding one.
C9_Witness ==
    /\ Succeeded
    /\ last_members = <<members>>
    /\ Len(members) = 2
    /\ Len(paying_patrons) + Len(free_followers) = 2
    /\ output = UnchangedLines

\* C10: a run POSTs at most once, the one payload holding all new names of
\* both tiers; the POST comes after the write of the document and before
\* anything is appended to GITHUB_OUTPUT; a run that reports unchanged or
\* dies of a fatal error POSTs nothing.
C10_PostOrder ==
    /\ Len(posted) <= 1
    /\ Count(trace, "post") = Len(posted)
    /\ \A i \in 1..Len(trace) :
          trace[i] = "post" =>
              /\ \E j \in 1..(i - 1) : trace[j] = "write"
              /\ \A j \in 1..(i - 1) : trace[j] \notin OutputLines
              /\ file = <<lua_content>>
    /\ posted # <<>> => posted[1] = new_patron_list
    /\ (exit_code = 1 \/ diagnostic # "none" \/ pc = "unchanged"
        \/ "out_unchanged" \in Elems(trace)) => posted = <<>>

\* C10 witness: one POST naming a new gold and a new silver name, between
\* the write and the report.
C10_Witness ==
    /\ trace = <<"write", "post", "out_changed">>
    /\ Len(posted) = 1
    /\ \E i, j \in 1..Len(posted[1]) : posted[1][i][2] = "gold" /\ posted[1][j][2] = "silver"

\* C4: when a document existed and the run published a changed one, the names
\* reported to the notifier are exactly the classified names that were not in
\* the prior document, each once and with its tier.
C4_NewNamesExact ==
    (file0 # <<>> /\ Wrote /\ pc \in {"report", "exited"}) =>
        LET reported == IF posted = <<>> THEN <<>> ELSE posted[1]
            current == Elems(paying_patrons) \cup Elems(free_followers)
        IN /\ {reported[i][1] : i \in 1..Len(reported)} = current \ prior_names
           /\ \A i, j \in 1..Len(reported) : reported[i][1] = reported[j][1] => i = j
           /\ \A i \in 1..Len(reported) :
                 \/ reported[i][2] = "gold" /\ reported[i][1] \in Elems(paying_patrons)
                 \/ reported[i][2] = "silver" /\ reported[i][1] \in Elems(free_followers)

====
